---- MODULE Spec2Model ----
(***************************************************************************)
(* Author attribution of registry sources (scripts/postprocess-registry.ts)*)
(*                                                                         *)
(* Strings that the program inspects (emails, dates, log lines) are        *)
(* sequences of one-character strings; display names are never inspected   *)
(* by the program and are plain TLA+ strings.                              *)
(***************************************************************************)
EXTENDS Integers, Sequences, FiniteSets, TLC

VARIABLES
    \* mergeContributors applied to drawn inputs
    historical,     \* the historical argument (array of ContributorData)
    current,        \* the current argument (array of ContributorData)
    authors,        \* the returned AuthorOutput[]
    identityOf,     \* ghost: identityOf[i] is the byIdentity key of authors[i]
    remerged,       \* result of merging the fed-back result with []
    phase,
    \* getRepoCommits applied to drawn log output
    logOutput,      \* lines of `git log --format="%ae|%an|%aI"`, newest first
    pathsOnDisk,    \* the candidate directories that exist in the repository
    gitThrows,      \* whether execSync throws
    scanResult,     \* the returned ContributorData[]
    scanPhase,
    \* main and processRegistry
    snapshotDocument,        \* data/historical-commits.json: absent, or its content
    historicalCommitsCache,  \* the module-level cache
    documentReads,           \* readFileSync calls on the snapshot document
    loadCalls,               \* ghost: calls of loadHistoricalCommits
    config,                  \* the RegistryConfig being processed
    registriesDone,          \* configs main has gone through
    upstream,                \* ghost: ids of upstream.sources iterated so far
    enrichedSources,         \* the enriched entries pushed so far
    written,                 \* sources of config's index.json as written by this run
    pc

mergeVars == <<historical, current, authors, identityOf, remerged, phase>>

scanVars == <<logOutput, pathsOnDisk, gitThrows, scanResult, scanPhase>>

driverVars == <<snapshotDocument, historicalCommitsCache, documentReads, loadCalls,
                config, registriesDone, upstream, enrichedSources, written, pc>>

vars == <<mergeVars, scanVars, driverVars>>

-----------------------------------------------------------------------------
(* Characters and strings *)

\* UTF-16 code units of the characters the model uses.
CharCode ==
    ("+" :> 43) @@ ("-" :> 45) @@ ("." :> 46) @@
    ("0" :> 48) @@ ("1" :> 49) @@ ("2" :> 50) @@ ("3" :> 51) @@ ("4" :> 52) @@
    ("5" :> 53) @@ ("6" :> 54) @@ ("7" :> 55) @@ ("8" :> 56) @@ ("9" :> 57) @@
    ("@" :> 64) @@ ("A" :> 65) @@ ("B" :> 66) @@
    ("a" :> 97) @@ ("b" :> 98) @@ ("c" :> 99) @@ ("e" :> 101) @@
    ("g" :> 103) @@ ("h" :> 104) @@ ("i" :> 105) @@ ("l" :> 108) @@
    ("m" :> 109) @@ ("n" :> 110) @@ ("o" :> 111) @@ ("p" :> 112) @@
    ("r" :> 114) @@ ("s" :> 115) @@ ("t" :> 116) @@ ("u" :> 117) @@
    ("x" :> 120) @@ ("y" :> 121)

IsDigit(ch) == CharCode[ch] >= 48 /\ CharCode[ch] <= 57

\* String.prototype.toLowerCase on one character.
LowerChar(ch) ==
    IF CharCode[ch] >= 65 /\ CharCode[ch] <= 90
        THEN CHOOSE d \in DOMAIN CharCode : CharCode[d] = CharCode[ch] + 32
        ELSE ch

ToLowerCase(s) == [i \in 1..Len(s) |-> LowerChar(s[i])]

\* The `<` operator of JavaScript on two strings: code units, left to right,
\* a proper prefix being smaller.
RECURSIVE StrLess(_, _)
StrLess(a, b) ==
    IF b = << >> THEN FALSE
    ELSE IF a = << >> THEN TRUE
    ELSE IF a[1] = b[1] THEN StrLess(Tail(a), Tail(b))
    ELSE CharCode[a[1]] < CharCode[b[1]]

\* Primary collation order of the characters a date is written with
\* (punctuation before digits, digits in numeric order).
CollationWeight(ch) ==
    IF ch = "-" THEN 1
    ELSE IF IsDigit(ch) THEN 10 + (CharCode[ch] - 48)
    ELSE 100 + CharCode[LowerChar(ch)]

\* String.prototype.localeCompare: negative, zero or positive.
RECURSIVE LocaleCompare(_, _)
LocaleCompare(a, b) ==
    IF a = << >> /\ b = << >> THEN 0
    ELSE IF a = << >> THEN -1
    ELSE IF b = << >> THEN 1
    ELSE IF CollationWeight(a[1]) < CollationWeight(b[1]) THEN -1
    ELSE IF CollationWeight(a[1]) > CollationWeight(b[1]) THEN 1
    ELSE LocaleCompare(Tail(a), Tail(b))

IsSuffix(suf, s) ==
    /\ Len(suf) <= Len(s)
    /\ SubSeq(s, Len(s) - Len(suf) + 1, Len(s)) = suf

-----------------------------------------------------------------------------
(* extractGithubFromNoreply *)

\* The result null; a handle is never empty ([^@]+).
Null == << >>

NoreplySuffix ==
    <<"@", "u", "s", "e", "r", "s", ".", "n", "o", "r", "e", "p", "l", "y", ".",
      "g", "i", "t", "h", "u", "b", ".", "c", "o", "m">>

\* Number of leading digits of s (the greedy \d+).
RECURSIVE LeadingDigits(_)
LeadingDigits(s) ==
    IF s # << >> /\ IsDigit(s[1]) THEN 1 + LeadingDigits(Tail(s)) ELSE 0

\* /^(?:\d+\+)?([^@]+)@users\.noreply\.github\.com$/ : group 1, or null.
\* The part before the suffix holds no "@"; the optional numeric prefix is
\* taken when digits are followed by "+" and something is left for the handle.
ExtractGithubFromNoreply(email) ==
    LET local == SubSeq(email, 1, Len(email) - Len(NoreplySuffix))
        d     == LeadingDigits(local)
    IN  IF ~IsSuffix(NoreplySuffix, email) THEN Null
        ELSE IF local = << >> \/ \E i \in 1..Len(local) : local[i] = "@" THEN Null
        ELSE IF d >= 1 /\ Len(local) >= d + 2 /\ local[d + 1] = "+"
            THEN SubSeq(local, d + 2, Len(local))
        ELSE local

\* github?.toLowerCase() ?? c.email.toLowerCase()
IdentityKey(email) ==
    LET github == ExtractGithubFromNoreply(email)
    IN  IF github # Null THEN ToLowerCase(github) ELSE ToLowerCase(email)

-----------------------------------------------------------------------------
(* Bounds and input pools *)

\* Records handed to one mergeContributors call (both arguments together).
MaxRecords == 3

PlainLower == <<"b", "@", "x">>
PlainUpper == <<"B", "@", "x">>
AliasNumbered == <<"1", "+", "a">> \o NoreplySuffix
AliasUpper == <<"A">> \o NoreplySuffix
BareWord == <<"a">>
PlainOther == <<"c", "@", "y">>

Emails == {PlainLower, PlainUpper, AliasNumbered, AliasUpper, BareWord, PlainOther}

DateEarly == <<"2", "0", "2", "4", "-", "1", "1", "-", "0", "2">>
DateLate == <<"2", "0", "2", "5", "-", "0", "6", "-", "1", "3">>

Dates == {DateEarly, DateLate}

\* Display names; the k-th record drawn carries the k-th name, so that the
\* record an output name was taken from can be told.
NameTable ==
    << <<"A", "n", "n">>, <<"B", "o">>, <<"C", "y">>, <<"D", "i">>, <<"E", "d">>,
       <<"F", "l", "o">> >>

\* The k-th record drawn carries 2^(k-1) commits, so that a sum of commits
\* tells which records it counts.
CommitsTable == <<1, 2, 4, 8, 16, 32>>

ContributorData(email, name, commits, firstCommit) ==
    [email |-> email, name |-> name, commits |-> commits, firstCommit |-> firstCommit]

-----------------------------------------------------------------------------
(* Map<string, V>: entries in insertion order, at most one per key *)

MapIndex(m, k) ==
    IF \E i \in 1..Len(m) : m[i].key = k
        THEN CHOOSE i \in 1..Len(m) : m[i].key = k
        ELSE 0

\* Map.prototype.set: an existing key keeps its place.
MapSet(m, entry) ==
    LET idx == MapIndex(m, entry.key)
    IN  IF idx > 0 THEN [m EXCEPT ![idx] = entry] ELSE Append(m, entry)

-----------------------------------------------------------------------------
(* mergeContributors, first loop pair: merge by email *)

Fresh == <<"fresh", 0>>

\* { ...c } : a new object with c's fields; it aliases no argument record.
SpreadCopyAliased(c, ref) == [val |-> c, alias |-> ref]

SpreadCopy(c, ref) == [val |-> c, alias |-> Fresh]

\* A write to the object a map entry holds reaches the argument record it
\* aliases, if any.
WriteThrough(st, alias, val) ==
    IF alias[1] = "historical" THEN [st EXCEPT !.hist[alias[2]] = val]
    ELSE IF alias[1] = "current" THEN [st EXCEPT !.cur[alias[2]] = val]
    ELSE st

\* for (const c of historical) byEmail.set(c.email, { ...c })
HistoricalStep(st, i) ==
    LET c   == st.hist[i]
        obj == SpreadCopy(c, <<"historical", i>>)
    IN  [st EXCEPT !.byEmail = MapSet(@, [key |-> c.email] @@ obj)]

\* existing.commits += c.commits; the earlier firstCommit is kept.
MergeIntoExistingNoAdd(existing, c) ==
    [existing EXCEPT
        !.firstCommit = IF StrLess(c.firstCommit, @) THEN c.firstCommit ELSE @]

MergeIntoExistingNoDate(existing, c) ==
    [existing EXCEPT !.commits = @ + c.commits]

MergeIntoExisting(existing, c) ==
    [existing EXCEPT
        !.commits = @ + c.commits,
        !.firstCommit = IF StrLess(c.firstCommit, @) THEN c.firstCommit ELSE @]

\* One iteration of `for (const c of current)`.
CurrentStep(st, j) ==
    LET c   == st.cur[j]
        idx == MapIndex(st.byEmail, c.email)
    IN  IF idx > 0
            THEN LET val == MergeIntoExisting(st.byEmail[idx].val, c)
                 IN  WriteThrough([st EXCEPT !.byEmail[idx].val = val],
                                  st.byEmail[idx].alias, val)
            ELSE [st EXCEPT !.byEmail =
                    Append(@, [key |-> c.email] @@ SpreadCopy(c, <<"current", j>>))]

RECURSIVE PassHistorical(_, _)
PassHistorical(st, i) ==
    IF i > Len(st.hist) THEN st ELSE PassHistorical(HistoricalStep(st, i), i + 1)

RECURSIVE PassCurrent(_, _)
PassCurrent(st, j) ==
    IF j > Len(st.cur) THEN st ELSE PassCurrent(CurrentStep(st, j), j + 1)

\* byEmail and the argument records after both loops.
MergeByEmail(hist, cur) ==
    PassCurrent(PassHistorical([byEmail |-> << >>, hist |-> hist, cur |-> cur], 1), 1)

-----------------------------------------------------------------------------
(* mergeContributors, second loop: dedupe by GitHub username or email *)

AuthorOutput(github, name, commits, firstCommit) ==
    [github |-> github, name |-> name, commits |-> commits, firstCommit |-> firstCommit]

IdentityKeyOf(c) == IdentityKey(c.email)

\* The `if (existing)` branch.
FoldIntoAuthorKeepDate(existing, c, github) ==
    [existing EXCEPT
        !.commits = @ + c.commits,
        !.github = IF github # Null /\ @ = Null THEN github ELSE @]

FoldIntoAuthor(existing, c, github) ==
    [existing EXCEPT
        !.commits = @ + c.commits,
        !.firstCommit = IF StrLess(c.firstCommit, @) THEN c.firstCommit ELSE @,
        !.name = IF StrLess(c.firstCommit, existing.firstCommit) THEN c.name ELSE @,
        !.github = IF github # Null /\ @ = Null THEN github ELSE @]

\* One iteration of `for (const c of byEmail.values())`.
IdentityStep(byIdentity, c) ==
    LET github == ExtractGithubFromNoreply(c.email)
        key    == IdentityKeyOf(c)
        idx    == MapIndex(byIdentity, key)
    IN  IF idx > 0
            THEN [byIdentity EXCEPT ![idx].val = FoldIntoAuthor(@, c, github)]
            ELSE Append(byIdentity,
                        [key |-> key,
                         val |-> AuthorOutput(github, c.name, c.commits, c.firstCommit)])

RECURSIVE PassIdentity(_, _, _)
PassIdentity(byIdentity, byEmail, i) ==
    IF i > Len(byEmail) THEN byIdentity
    ELSE PassIdentity(IdentityStep(byIdentity, byEmail[i].val), byEmail, i + 1)

-----------------------------------------------------------------------------
(* Array.prototype.sort with (a, b) => a.firstCommit.localeCompare(b.firstCommit) *)

CompareFirstCommit(a, b) == LocaleCompare(a.val.firstCommit, b.val.firstCommit)

\* x placed before the elements it compares equal to: ties change places.
InsertSortedBeforeEqual(sorted, x) ==
    LET later == {i \in 1..Len(sorted) : CompareFirstCommit(sorted[i], x) >= 0}
        pos   == IF later = {} THEN Len(sorted) + 1
                 ELSE CHOOSE i \in later : \A k \in later : i <= k
    IN  SubSeq(sorted, 1, pos - 1) \o <<x>> \o SubSeq(sorted, pos, Len(sorted))

\* x placed after every element that does not compare greater (stable).
InsertSorted(sorted, x) ==
    LET later == {i \in 1..Len(sorted) : CompareFirstCommit(sorted[i], x) > 0}
        pos   == IF later = {} THEN Len(sorted) + 1
                 ELSE CHOOSE i \in later : \A k \in later : i <= k
    IN  SubSeq(sorted, 1, pos - 1) \o <<x>> \o SubSeq(sorted, pos, Len(sorted))

RECURSIVE SortFrom(_, _, _)
SortFrom(sorted, entries, i) ==
    IF i > Len(entries) THEN sorted
    ELSE SortFrom(InsertSorted(sorted, entries[i]), entries, i + 1)

UnsortedByFirstCommit(entries) == entries

SortByFirstCommit(entries) == SortFrom(<< >>, entries, 1)

-----------------------------------------------------------------------------
(* mergeContributors *)

\* authors: the returned list.  identityOf: the byIdentity key of each returned
\* author.  histAfter, curAfter: the argument records when the call returns.
MergeContributors(hist, cur) ==
    LET st     == MergeByEmail(hist, cur)
        sorted == SortByFirstCommit(PassIdentity(<< >>, st.byEmail, 1))
    IN  [authors    |-> [i \in 1..Len(sorted) |-> sorted[i].val],
         identityOf |-> [i \in 1..Len(sorted) |-> sorted[i].key],
         histAfter  |-> st.hist,
         curAfter   |-> st.cur]

-----------------------------------------------------------------------------
(* loadHistoricalCommits *)

NullCache == [null |-> TRUE]

NoConfig == [none |-> TRUE]

AbsentDocument == [exists |-> FALSE]

\* sources[id] ?? []
Lookup(sources, id) == IF id \in DOMAIN sources THEN sources[id] ELSE << >>

\* data: the sources of the returned object; cache, reads: the cache and the
\* number of reads of the document after the call.  An absent document
\* gives { sources: {} } (the empty mapping, << >>).
LoadHistoricalCommits(cache, doc, reads) ==
    IF ~cache.null
        THEN [data |-> cache.sources, cache |-> cache, reads |-> reads]
    ELSE IF doc.exists
        THEN [data |-> doc.sources, cache |-> [null |-> FALSE, sources |-> doc.sources],
              reads |-> reads + 1]
    ELSE [data |-> << >>, cache |-> [null |-> FALSE, sources |-> << >>],
          reads |-> reads]

\* The driver before main runs (and in the specifications of single functions).
DriverIdle ==
    /\ snapshotDocument = AbsentDocument
    /\ historicalCommitsCache = NullCache
    /\ documentReads = 0
    /\ loadCalls = 0
    /\ config = NoConfig
    /\ registriesDone = 0
    /\ upstream = << >>
    /\ enrichedSources = << >>
    /\ written = << >>
    /\ pc = "idle"

-----------------------------------------------------------------------------
(* Specification of mergeContributors over drawn arguments *)

MergeInit ==
    /\ historical = << >>
    /\ current = << >>
    /\ authors = << >>
    /\ identityOf = << >>
    /\ remerged = << >>
    /\ phase = "input"
    /\ logOutput = << >>
    /\ pathsOnDisk = {}
    /\ gitThrows = FALSE
    /\ scanResult = << >>
    /\ scanPhase = "idle"
    /\ DriverIdle

NextName == NameTable[Len(historical) + Len(current) + 1]

NextCommits == CommitsTable[Len(historical) + Len(current) + 1]

\* The historical list is drawn first, then the current list.
AddHistorical ==
    /\ phase = "input"
    /\ current = << >>
    /\ Len(historical) + Len(current) < MaxRecords
    /\ \E e \in Emails, d \in Dates :
          historical' = Append(historical, ContributorData(e, NextName, NextCommits, d))
    /\ UNCHANGED <<current, authors, identityOf, remerged, phase>>
    /\ UNCHANGED <<scanVars, driverVars>>

AddCurrent ==
    /\ phase = "input"
    /\ Len(historical) + Len(current) < MaxRecords
    /\ \E e \in Emails, d \in Dates :
          current' = Append(current, ContributorData(e, NextName, NextCommits, d))
    /\ UNCHANGED <<historical, authors, identityOf, remerged, phase>>
    /\ UNCHANGED <<scanVars, driverVars>>

Merge ==
    /\ phase = "input"
    /\ LET r == MergeContributors(historical, current)
       IN  /\ authors' = r.authors
           /\ identityOf' = r.identityOf
    /\ phase' = "merged"
    /\ UNCHANGED <<historical, current, remerged>>
    /\ UNCHANGED <<scanVars, driverVars>>

\* The emails under which output author i can be fed back: they resolve to
\* its identity and carry its handle.
FeedbackEmails(i) ==
    {e \in Emails : IdentityKey(e) = identityOf[i]
                    /\ ExtractGithubFromNoreply(e) = authors[i].github}

\* The ways of writing authors[1..n] as historical records.
RECURSIVE FeedbackLists(_)
FeedbackLists(n) ==
    IF n = 0 THEN {<< >>}
    ELSE {Append(h, ContributorData(e, authors[n].name, authors[n].commits,
                                    authors[n].firstCommit)) :
            h \in FeedbackLists(n - 1), e \in FeedbackEmails(n)}

\* The returned list as a historical list, merged with an empty current list.
Remerge ==
    /\ phase = "merged"
    /\ \E h \in FeedbackLists(Len(authors)) :
          remerged' = MergeContributors(h, << >>).authors
    /\ phase' = "remerged"
    /\ UNCHANGED <<historical, current, authors, identityOf>>
    /\ UNCHANGED <<scanVars, driverVars>>

MergeNext == AddHistorical \/ AddCurrent \/ Merge \/ Remerge

MergeSpec == MergeInit /\ [][MergeNext]_vars

-----------------------------------------------------------------------------
(* Vocabulary of the properties of mergeContributors *)

Merged == phase \in {"merged", "remerged"}

\* The records of both arguments.
Inputs == historical \o current

RECURSIVE SumCommits(_)
SumCommits(list) ==
    IF list = << >> THEN 0 ELSE list[1].commits + SumCommits(Tail(list))

\* At most one record per email (the CommitStat invariant of one source).
UniqueEmails(list) ==
    \A i, j \in 1..Len(list) : list[i].email = list[j].email => i = j

\* Record r is counted in output author i: commits are distinct powers of two.
Contributes(r, i) == (authors[i].commits \div r.commits) % 2 = 1

\* The input records whose identity key is k.
RecordsOf(k) == {i \in 1..Len(Inputs) : IdentityKey(Inputs[i].email) = k}

IsMinDate(d, recs) ==
    /\ \E i \in recs : Inputs[i].firstCommit = d
    /\ \A i \in recs : ~StrLess(Inputs[i].firstCommit, d)

-----------------------------------------------------------------------------
(* C1: commit conservation *)

\* C1 as stated: for every historical and current list, the commits of the
\* returned authors sum to the commits of the historical list plus the
\* commits of the current list.
C1_ConservationAnyLists ==
    Merged => SumCommits(authors) = SumCommits(historical) + SumCommits(current)

\* C1 amended: the same, for a historical list with at most one record per
\* email (the current list is arbitrary).
C1_Conservation ==
    (Merged /\ UniqueEmails(historical)) =>
        SumCommits(authors) = SumCommits(historical) + SumCommits(current)

\* An email present in both lists was merged, and two emails of one identity
\* were folded into one author.
C1_Witness ==
    /\ phase = "merged"
    /\ UniqueEmails(historical)
    /\ \E i \in 1..Len(historical), j \in 1..Len(current) :
          historical[i].email = current[j].email
    /\ Len(authors) = 1
    /\ Len(Inputs) = 3
    /\ authors[1].commits = 7

-----------------------------------------------------------------------------
(* C2: identity grouping *)

IsAlias(r) == ExtractGithubFromNoreply(r.email) # Null

\* Same email text, or alias emails of the same account handle.
SameIdentity(r1, r2) ==
    \/ r1.email = r2.email
    \/ /\ IsAlias(r1) /\ IsAlias(r2)
       /\ ToLowerCase(ExtractGithubFromNoreply(r1.email))
            = ToLowerCase(ExtractGithubFromNoreply(r2.email))

\* Different identity keys, or a plain email against an alias email.
DifferentIdentity(r1, r2) ==
    \/ IdentityKey(r1.email) # IdentityKey(r2.email)
    \/ IsAlias(r1) # IsAlias(r2)

\* C2 as stated: records of the same identity are counted in one and the same
\* output author, records of different identities (a plain email and an alias
\* email in particular) in different authors, and there are as many authors as
\* distinct identity keys.
C2_IdentityGrouping ==
    Merged =>
        /\ \A a, b \in 1..Len(Inputs), i, j \in 1..Len(authors) :
              (Contributes(Inputs[a], i) /\ Contributes(Inputs[b], j)) =>
                  /\ SameIdentity(Inputs[a], Inputs[b]) => i = j
                  /\ DifferentIdentity(Inputs[a], Inputs[b]) => i # j
        /\ Len(authors) = Cardinality({IdentityKey(Inputs[a].email) : a \in 1..Len(Inputs)})

-----------------------------------------------------------------------------
(* C3: minimum date *)

\* C3 as stated: each author's firstCommit is the minimum firstCommit of the
\* input records whose identity key is the author's.
C3_MinimumDateAnyLists ==
    Merged => \A i \in 1..Len(authors) :
        IsMinDate(authors[i].firstCommit, RecordsOf(identityOf[i]))

\* C3 amended: the same, for a historical list with at most one record per
\* email.
C3_MinimumDate ==
    (Merged /\ UniqueEmails(historical)) => \A i \in 1..Len(authors) :
        IsMinDate(authors[i].firstCommit, RecordsOf(identityOf[i]))

\* The minimum of an author came from the current list for an email that the
\* historical list dates later, and another author groups two emails of which
\* the second holds the minimum.
C3_Witness ==
    /\ phase = "merged"
    /\ UniqueEmails(historical)
    /\ \E i \in 1..Len(historical), j \in 1..Len(current) :
          /\ historical[i].email = current[j].email
          /\ StrLess(current[j].firstCommit, historical[i].firstCommit)
    /\ \E i, j \in 1..Len(historical) :
          /\ i < j
          /\ historical[i].email # historical[j].email
          /\ IdentityKey(historical[i].email) = IdentityKey(historical[j].email)
          /\ StrLess(historical[j].firstCommit, historical[i].firstCommit)

-----------------------------------------------------------------------------
(* C4: sorted output *)

\* C4: the returned list is non-decreasing in firstCommit under code-unit
\* string comparison.
C4_SortedOutput ==
    Merged => \A i, j \in 1..Len(authors) :
        i < j => ~StrLess(authors[j].firstCommit, authors[i].firstCommit)

\* Three authors, and the identity of the first record drawn is not the first
\* author returned: the sort moved it.
C4_Witness ==
    /\ phase = "merged"
    /\ Len(authors) = 3
    /\ identityOf[1] # IdentityKey(Inputs[1].email)
    /\ StrLess(authors[1].firstCommit, authors[3].firstCommit)

-----------------------------------------------------------------------------
(* C5: order independence *)

PermutationsOf(list) ==
    LET n == Len(list)
    IN  {[i \in 1..n |-> list[p[i]]] :
            p \in {q \in [1..n -> 1..n] : \A i, j \in 1..n : q[i] = q[j] => i = j}}

\* Authors compared by identity, commit count and first-commit date.
AuthorSet(auths, ids) ==
    {<<ids[i], auths[i].commits, auths[i].firstCommit>> : i \in 1..Len(auths)}

SameAuthorsInAnyOrder ==
    \A h \in PermutationsOf(historical), c \in PermutationsOf(current) :
        LET r == MergeContributors(h, c)
        IN  AuthorSet(r.authors, r.identityOf) = AuthorSet(authors, identityOf)

-----------------------------------------------------------------------------
(* C6: idempotence under re-merge *)

\* C6: the returned list, fed back as the historical list with an empty
\* current list, is returned unchanged: same handles, names, commits, dates
\* and order.
C6_Idempotence == phase = "remerged" => remerged = authors

\* A re-merge of three authors, two of them with the same date, one with a
\* handle, one folded from several records.
C6_Witness ==
    /\ phase = "remerged"
    /\ Len(authors) = 3
    /\ Len(remerged) = 3
    /\ \E i \in 1..2 : authors[i].firstCommit = authors[i + 1].firstCommit
    /\ \E i \in 1..3 : authors[i].github # Null

-----------------------------------------------------------------------------
(* C8: the name of the earliest record *)

\* C8 as stated: each author's name is the name of an input record of the
\* author's identity whose firstCommit is the author's firstCommit.
C8_NameOfEarliestRecord ==
    Merged => \A i \in 1..Len(authors) :
        \E a \in RecordsOf(identityOf[i]) :
            /\ Inputs[a].name = authors[i].name
            /\ Inputs[a].firstCommit = authors[i].firstCommit

-----------------------------------------------------------------------------
(* getRepoCommits *)

\* Lines of log output handed to one getRepoCommits call.
MaxLogLines == 3

\* String.prototype.split on a one-character separator.
RECURSIVE Split(_, _)
Split(s, sep) ==
    IF \E i \in 1..Len(s) : s[i] = sep
        THEN LET i == CHOOSE k \in 1..Len(s) :
                        s[k] = sep /\ \A m \in 1..(k - 1) : s[m] # sep
             IN  <<SubSeq(s, 1, i - 1)>> \o Split(SubSeq(s, i + 1, Len(s)), sep)
        ELSE <<s>>

\* A destructured array element: undefined (falsy, as the empty string) when
\* the array is shorter.
Field(parts, k) == IF Len(parts) >= k THEN parts[k] ELSE << >>

RECURSIVE Reverse(_)
Reverse(list) ==
    IF list = << >> THEN << >> ELSE Append(Reverse(Tail(list)), list[1])

\* The candidate directories, in the order tried: sources/<id>, src/<id>, <id>.
Patterns == <<"sources", "src", "bare">>

\* The first candidate that exists, or null.
FullPath(onDisk) ==
    IF \E k \in 1..Len(Patterns) : Patterns[k] \in onDisk
        THEN Patterns[CHOOSE k \in 1..Len(Patterns) :
                        Patterns[k] \in onDisk
                        /\ \A m \in 1..(k - 1) : Patterns[m] \notin onDisk]
        ELSE "null"

\* The `if (existing)` branch, with the name overwritten by the later commit.
ScanIntoExistingRename(existing, name, dateOnly) ==
    [existing EXCEPT
        !.name = name,
        !.commits = @ + 1,
        !.firstCommit = IF StrLess(dateOnly, @) THEN dateOnly ELSE @]

\* The `if (existing)` branch: existing.commits++, the earlier date kept.
ScanIntoExisting(existing, name, dateOnly) ==
    [existing EXCEPT
        !.commits = @ + 1,
        !.firstCommit = IF StrLess(dateOnly, @) THEN dateOnly ELSE @]

\* One iteration of `for (const line of commits.reverse())`.
ScanStep(byEmail, line) ==
    LET parts    == Split(line, "|")
        email    == Field(parts, 1)
        name     == Field(parts, 2)
        date     == Field(parts, 3)
        dateOnly == Split(date, "T")[1]
        idx      == MapIndex(byEmail, email)
    IN  IF email = << >> \/ name = << >> \/ date = << >> THEN byEmail
        ELSE IF idx > 0
            THEN [byEmail EXCEPT ![idx].val = ScanIntoExisting(@, name, dateOnly)]
        ELSE Append(byEmail,
                    [key |-> email,
                     val |-> [name |-> name, commits |-> 1, firstCommit |-> dateOnly]])

RECURSIVE ScanLines(_, _, _)
ScanLines(byEmail, lines, i) ==
    IF i > Len(lines) THEN byEmail
    ELSE ScanLines(ScanStep(byEmail, lines[i]), lines, i + 1)

\* .filter(Boolean): the empty lines are dropped.
FilterBoolean(lines) == SelectSeq(lines, LAMBDA l : l # << >>)

\* The try block after execSync returned `lines`.
AggregateLog(lines) ==
    LET byEmail == ScanLines(<< >>, Reverse(FilterBoolean(lines)), 1)
    IN  [i \in 1..Len(byEmail) |->
            ContributorData(byEmail[i].key, byEmail[i].val.name,
                            byEmail[i].val.commits, byEmail[i].val.firstCommit)]

\* getRepoCommits: no candidate directory, or a throwing git query, gives [].
GetRepoCommits(onDisk, throws, lines) ==
    IF FullPath(onDisk) = "null" THEN << >>
    ELSE IF throws THEN << >>
    ELSE AggregateLog(lines)

-----------------------------------------------------------------------------
(* Specification of getRepoCommits over drawn log output *)

TimeOfDay ==
    <<"T", "1", "0", ":", "0", "0", ":", "0", "0", "+", "0", "2", ":", "0", "0">>

LogLine(email, name, date) == email \o <<"|">> \o name \o <<"|">> \o date \o TimeOfDay

LogNames == {NameTable[1], NameTable[2]}

\* Well-formed lines, a line with an empty name, and an empty line.
LogLines ==
    {LogLine(e, n, d) : e \in {PlainLower, PlainOther}, n \in LogNames, d \in Dates}
        \cup {LogLine(PlainLower, << >>, DateEarly), << >>}

ScanInit ==
    /\ logOutput = << >>
    /\ pathsOnDisk = {}
    /\ gitThrows = FALSE
    /\ scanResult = << >>
    /\ scanPhase = "input"
    /\ historical = << >>
    /\ current = << >>
    /\ authors = << >>
    /\ identityOf = << >>
    /\ remerged = << >>
    /\ phase = "idle"
    /\ DriverIdle

\* One more (older) line of output.
AppendLogLine ==
    /\ scanPhase = "input"
    /\ Len(logOutput) < MaxLogLines
    /\ \E l \in LogLines : logOutput' = Append(logOutput, l)
    /\ UNCHANGED <<pathsOnDisk, gitThrows, scanResult, scanPhase>>
    /\ UNCHANGED <<mergeVars, driverVars>>

Scan ==
    /\ scanPhase = "input"
    /\ \E onDisk \in SUBSET {"sources", "src", "bare"}, throws \in BOOLEAN :
          /\ pathsOnDisk' = onDisk
          /\ gitThrows' = throws
          /\ scanResult' = GetRepoCommits(onDisk, throws, logOutput)
    /\ scanPhase' = "scanned"
    /\ UNCHANGED logOutput
    /\ UNCHANGED <<mergeVars, driverVars>>

ScanNext == AppendLogLine \/ Scan

ScanSpec == ScanInit /\ [][ScanNext]_vars

-----------------------------------------------------------------------------
(* C9: the record the scanner returns for an email *)

WellFormed(line) ==
    LET parts == Split(line, "|")
    IN  Len(parts) = 3 /\ parts[1] # << >> /\ parts[2] # << >> /\ parts[3] # << >>

EmailOf(line) == Split(line, "|")[1]
NameOf(line) == Split(line, "|")[2]
DateOf(line) == SubSeq(Split(line, "|")[3], 1, 10)

\* The positions in the newest-first output of the commits by email e.
LinesOf(e) == {i \in 1..Len(logOutput) : EmailOf(logOutput[i]) = e}

\* The log was read and every line of it is well-formed.
Scanned ==
    /\ scanPhase = "scanned"
    /\ FullPath(pathsOnDisk) # "null"
    /\ ~gitThrows
    /\ \A i \in 1..Len(logOutput) : WellFormed(logOutput[i])

CountAndDateOf(rec) ==
    /\ rec.commits = Cardinality(LinesOf(rec.email))
    /\ \E i \in LinesOf(rec.email) : DateOf(logOutput[i]) = rec.firstCommit
    /\ \A i \in LinesOf(rec.email) : ~StrLess(DateOf(logOutput[i]), rec.firstCommit)

OneRecordPerEmail ==
    /\ \A i \in 1..Len(logOutput) :
          \E k \in 1..Len(scanResult) : scanResult[k].email = EmailOf(logOutput[i])
    /\ \A k \in 1..Len(scanResult) : LinesOf(scanResult[k].email) # {}
    /\ UniqueEmails(scanResult)

-----------------------------------------------------------------------------
(* main and processRegistry *)

\* Configs in data/registries.json.
MaxRegistries == 2

\* Sources in one upstream.json.
MaxSources == 2

SourceIds == {"alpha", "beta"}

HistoricalA == ContributorData(PlainLower, NameTable[3], 4, DateLate)
HistoricalB == ContributorData(AliasNumbered, NameTable[4], 8, DateEarly)

SnapshotDocuments ==
    { AbsentDocument,
      [exists |-> TRUE, sources |-> ("alpha" :> <<HistoricalA>>)],
      [exists |-> TRUE,
       sources |-> ("alpha" :> <<HistoricalB, HistoricalA>>) @@ ("beta" :> <<HistoricalB>>)] }

\* Output of the git query for one source directory.
DriverLogs ==
    { << >>,
      <<LogLine(PlainLower, NameTable[1], DateEarly)>>,
      <<LogLine(PlainOther, NameTable[2], DateLate),
        LogLine(PlainLower, NameTable[1], DateLate)>> }

Configs ==
    [hasHistoricalCommits : BOOLEAN, repoExists : BOOLEAN, upstreamExists : BOOLEAN]

Init ==
    /\ snapshotDocument \in SnapshotDocuments
    /\ historicalCommitsCache = NullCache
    /\ documentReads = 0
    /\ loadCalls = 0
    /\ config = NoConfig
    /\ registriesDone = 0
    /\ upstream = << >>
    /\ enrichedSources = << >>
    /\ written = << >>
    /\ pc = "main"
    /\ historical = << >>
    /\ current = << >>
    /\ authors = << >>
    /\ identityOf = << >>
    /\ remerged = << >>
    /\ phase = "idle"
    /\ logOutput = << >>
    /\ pathsOnDisk = {}
    /\ gitThrows = FALSE
    /\ scanResult = << >>
    /\ scanPhase = "idle"

\* processRegistry returns at once: dist/<id>/upstream.json is not there.
SkipRegistry ==
    /\ pc = "main"
    /\ registriesDone < MaxRegistries
    /\ \E cfg \in Configs :
          /\ ~cfg.upstreamExists
          /\ config' = cfg
    /\ registriesDone' = registriesDone + 1
    /\ upstream' = << >>
    /\ enrichedSources' = << >>
    /\ written' = << >>
    /\ UNCHANGED <<snapshotDocument, historicalCommitsCache, documentReads, loadCalls, pc>>
    /\ UNCHANGED <<mergeVars, scanVars>>

\* processRegistry up to the loop over upstream.sources.
StartRegistry ==
    /\ pc = "main"
    /\ registriesDone < MaxRegistries
    /\ \E cfg \in Configs :
          /\ cfg.upstreamExists
          /\ config' = cfg
          /\ IF cfg.hasHistoricalCommits
                THEN LET l == LoadHistoricalCommits(historicalCommitsCache,
                                                    snapshotDocument, documentReads)
                     IN  /\ historicalCommitsCache' = l.cache
                         /\ documentReads' = l.reads
                         /\ loadCalls' = loadCalls + 1
                ELSE UNCHANGED <<historicalCommitsCache, documentReads, loadCalls>>
    /\ upstream' = << >>
    /\ enrichedSources' = << >>
    /\ written' = << >>
    /\ pc' = "sources"
    /\ UNCHANGED <<snapshotDocument, registriesDone>>
    /\ UNCHANGED <<mergeVars, scanVars>>

\* historicalData.sources: the cached object, or the literal { sources: {} }.
HistoricalData ==
    IF config.hasHistoricalCommits THEN historicalCommitsCache.sources ELSE << >>

\* One iteration of `for (const source of upstream.sources)`: the entry pushed
\* (scan: the list handed to mergeContributors as current, [] when there was
\* no call; curAfter: that list after the call; failed: the git query threw)
\* and the historical records of the source after the iteration.
EnrichSource(id, onDisk, throws, lines) ==
    IF config.repoExists
        THEN LET hist == Lookup(HistoricalData, id)
                 cur  == GetRepoCommits(onDisk, throws, lines)
                 r    == MergeContributors(hist, cur)
             IN  [entry |-> [id |-> id, authors |-> r.authors, scan |-> cur,
                             curAfter |-> r.curAfter,
                             failed |-> FullPath(onDisk) # "null" /\ throws],
                  histAfter |-> r.histAfter]
        ELSE [entry |-> [id |-> id, authors |-> << >>, scan |-> << >>,
                         curAfter |-> << >>, failed |-> FALSE],
              histAfter |-> Lookup(HistoricalData, id)]

\* The loop body with no try/catch around the git query: a throwing query ends
\* the run before the entry is pushed.
ProcessSourceUncaught ==
    /\ pc = "sources"
    /\ Len(upstream) < MaxSources
    /\ \E id \in SourceIds, onDisk \in SUBSET {"sources", "src", "bare"},
          throws \in BOOLEAN, lines \in DriverLogs :
          LET e == EnrichSource(id, onDisk, throws, lines)
          IN  /\ upstream' = Append(upstream, id)
              /\ enrichedSources' =
                    IF e.entry.failed THEN enrichedSources
                    ELSE Append(enrichedSources, e.entry)
              /\ pc' = IF e.entry.failed THEN "done" ELSE pc
              /\ historicalCommitsCache' =
                    IF config.hasHistoricalCommits /\ id \in DOMAIN HistoricalData
                        THEN [historicalCommitsCache EXCEPT !.sources[id] = e.histAfter]
                        ELSE historicalCommitsCache
    /\ UNCHANGED <<snapshotDocument, documentReads, loadCalls, config, registriesDone,
                   written>>
    /\ UNCHANGED <<mergeVars, scanVars>>

ProcessSource ==
    /\ pc = "sources"
    /\ Len(upstream) < MaxSources
    /\ \E id \in SourceIds, onDisk \in SUBSET {"sources", "src", "bare"},
          throws \in BOOLEAN, lines \in DriverLogs :
          LET e == EnrichSource(id, onDisk, throws, lines)
          IN  /\ upstream' = Append(upstream, id)
              /\ enrichedSources' = Append(enrichedSources, e.entry)
              \* the historical records are the cached objects
              /\ historicalCommitsCache' =
                    IF config.hasHistoricalCommits /\ id \in DOMAIN HistoricalData
                        THEN [historicalCommitsCache EXCEPT !.sources[id] = e.histAfter]
                        ELSE historicalCommitsCache
    /\ UNCHANGED <<snapshotDocument, documentReads, loadCalls, config, registriesDone,
                   written, pc>>
    /\ UNCHANGED <<mergeVars, scanVars>>

\* upstream.sources is exhausted: index.json and index.min.json are written.
FinishRegistry ==
    /\ pc = "sources"
    /\ written' = enrichedSources
    /\ registriesDone' = registriesDone + 1
    /\ pc' = "main"
    /\ UNCHANGED <<snapshotDocument, historicalCommitsCache, documentReads, loadCalls,
                   config, upstream, enrichedSources>>
    /\ UNCHANGED <<mergeVars, scanVars>>

\* The configs are exhausted: main logs "Done".
Done ==
    /\ pc = "main"
    /\ pc' = "done"
    /\ UNCHANGED <<snapshotDocument, historicalCommitsCache, documentReads, loadCalls,
                   config, registriesDone, upstream, enrichedSources, written>>
    /\ UNCHANGED <<mergeVars, scanVars>>

Next == SkipRegistry \/ StartRegistry \/ ProcessSource \/ FinishRegistry \/ Done

Spec == Init /\ [][Next]_vars

-----------------------------------------------------------------------------
(* C7: degrade to historical data *)

\* The historical records of source id in the registry being processed.
HistoricalRecords(id) ==
    IF config.hasHistoricalCommits /\ snapshotDocument.exists
        THEN Lookup(snapshotDocument.sources, id)
        ELSE << >>

\* C7 as stated: the authors attached to every entry are
\* mergeContributors(historical records of the entry, scan result), the scan
\* result being empty when nothing could be scanned.
C7_DegradeToHistorical ==
    \A k \in 1..Len(enrichedSources) :
        enrichedSources[k].authors =
            MergeContributors(HistoricalRecords(enrichedSources[k].id),
                              enrichedSources[k].scan).authors

-----------------------------------------------------------------------------
(* C10: the snapshot is read-only *)

\* C10: the cache, once set, holds the document as loaded; the document is
\* read at most once; the records handed to mergeContributors as current are
\* left as they were.
C10_SnapshotReadOnly ==
    /\ documentReads <= 1
    /\ ~historicalCommitsCache.null =>
          historicalCommitsCache.sources =
              (IF snapshotDocument.exists THEN snapshotDocument.sources ELSE << >>)
    /\ \A k \in 1..Len(enrichedSources) :
          enrichedSources[k].curAfter = enrichedSources[k].scan

\* A second call of loadHistoricalCommits served from the cache, and then a
\* merge of a scanned record into a cached historical record of the same
\* email with a later date.
C10_Witness ==
    /\ loadCalls = 2
    /\ documentReads = 1
    /\ snapshotDocument.exists
    /\ Len(enrichedSources) >= 1
    /\ enrichedSources[1].id \in DOMAIN snapshotDocument.sources
    /\ LET hist == snapshotDocument.sources[enrichedSources[1].id]
           scan == enrichedSources[1].scan
           auth == enrichedSources[1].authors
       IN  \E i \in 1..Len(hist), j \in 1..Len(scan) :
              /\ scan[j].email = hist[i].email
              /\ StrLess(scan[j].firstCommit, hist[i].firstCommit)
              /\ \E a \in 1..Len(auth) :
                    /\ auth[a].commits = hist[i].commits + scan[j].commits
                    /\ auth[a].firstCommit = scan[j].firstCommit

-----------------------------------------------------------------------------
(* C11: failure isolation across entries *)

\* The authors of an entry as its own source id and its own scan decide them.
AuthorsOnItsOwn(entry) ==
    IF config.repoExists
        THEN MergeContributors(HistoricalRecords(entry.id), entry.scan).authors
        ELSE << >>

\* C11: whatever scans failed, there is one enriched entry per upstream entry
\* iterated, in upstream order; the file written holds them all; and the
\* authors of an entry whose scan did not fail are those its own historical
\* records and its own scan give.
C11_FailureIsolation ==
    /\ Len(enrichedSources) = Len(upstream)
    /\ \A k \in 1..Len(enrichedSources) : enrichedSources[k].id = upstream[k]
    /\ pc \in {"main", "done"} => written = enrichedSources
    /\ \A k \in 1..Len(enrichedSources) :
          ~enrichedSources[k].failed =>
              enrichedSources[k].authors = AuthorsOnItsOwn(enrichedSources[k])

\* A registry written with two entries: the scan of the first failed, the
\* second was scanned and merged with its historical records.
C11_Witness ==
    /\ pc = "main"
    /\ Len(written) = 2
    /\ written[1].failed
    /\ ~written[2].failed
    /\ written[2].scan # << >>
    /\ Len(written[2].authors) >= 2
    /\ HistoricalRecords(written[2].id) # << >>

====
